---- MODULE Spec2Model ----
(***************************************************************************)
(* Number, select and sensor entities of the panasonic_cc integration      *)
(* (custom_components/panasonic_cc/number.py, select.py, sensor.py).       *)
(*                                                                         *)
(* Three specifications share the module:                                  *)
(*   Spec          one entity at run time with its coordinator: user       *)
(*                 writes, suspended at their awaits, interleaved with     *)
(*                 coordinator updates. Entities share nothing but the     *)
(*                 snapshot they read, so a behaviour follows one entity,  *)
(*                 drawn at Init;                                          *)
(*   SetupSpec     number.async_setup_entry over bounded hass.data;        *)
(*   RoundTripSpec set_option / get_current_option of the Aquarea select   *)
(*                 descriptions against a device that applies the call.    *)
(*                                                                         *)
(* A Python value that may be None is a sequence: <<>> is None, <<v>> is v.*)
(* A float handed in by the host is an integer number of tenths.           *)
(***************************************************************************)
EXTENDS Integers, Sequences, FiniteSets, TLC

VARIABLES
    entity,      \* the entity followed (its description's key)
    coordinator_device,  \* coordinator.device: the snapshot the entity's coordinator holds
    attr,        \* the entity's _attr_* fields (and plain attributes it assigns)
    call,        \* the user write in flight: position, locals, steps done, requests sent
    optimistic,  \* a write assigned the displayed value and no callback ran since
    refreshed,   \* the coordinator delivered at least one update to the entity
    notified,    \* the last step was a coordinator update (the callback ran)
    hass,        \* SetupSpec: hass.data[DOMAIN], the coordinators' devices
    devices,     \* SetupSpec: the list handed to async_add_entities, None before the call
    rt           \* RoundTripSpec: description, option, device, position

vars == <<entity, coordinator_device, attr, call, optimistic, refreshed, notified, hass, devices, rt>>

None == <<>>
Some(v) == <<v>>

\* ---------------------------------------------------------------- bounds

\* Distinct setpoint values a snapshot can hold per target (besides None).
NumSetpoints == 1
\* Zones per device in SetupSpec.
MaxZones == 2

\* ------------------------------------------------------ values in snapshots

HeatSetpoints == {20 + i : i \in 0..(NumSetpoints - 1)}
CoolSetpoints == {25 + i : i \in 0..(NumSetpoints - 1)}

\* ExtendedOperationMode members the code names.
Modes == {"HEAT", "COOL", "AUTO_HEAT", "AUTO_COOL"}
\* constants.AirSwingLR names offered by the horizontal swing select.
SwingNames == {"Left", "Right"}
\* Zone damper levels reported by the device.
Levels == {0, 20}
\* Values a user hands to async_set_native_value, in tenths.
UserValues == {200, 235}

SPECIAL_STATUS_OPTIONS == <<"NORMAL", "ECO", "COMFORT">>
POWERFUL_TIME_OPTIONS == <<"OFF", "30MIN", "60MIN", "90MIN">>

Range(s) == {s[i] : i \in DOMAIN s}

\* An enum member, told apart from its name.
Member(n) == [name |-> n]
\* The members of aioaquarea's SpecialStatus and PowerfulTime that the descriptions look up.
SpecialStatus == {Member(n) : n \in {"ECO", "COMFORT"}}
PowerfulTime == {Member(n) : n \in Range(POWERFUL_TIME_OPTIONS)}
\* Enum[name]: the member of that name.
getitem(enum, n) == CHOOSE m \in enum : m.name = n

\* int(value) of a non-negative or negative float given in tenths: truncation toward zero.
int_(value) == IF value >= 0 THEN value \div 10 ELSE -((-value) \div 10)

\* ------------------------------------------------------------- entities

\* description.zone_id of the Aquarea number entities, zone.id of the damper's zone.
ZoneIdOf(e) == 1

DAMPER == "zone-1-damper"
HSWING == "horizontal_swing"
INSIDE == "inside_temperature"
BARE == "bare"
BARE_AQUAREA == "bare_aquarea"
HEAT_TARGET == "zone-1-heat-target"
COOL_TARGET == "zone-1-cool-target"
SPECIAL == "special_status"

PanasonicEntities == {DAMPER, HSWING, INSIDE, BARE}
AquareaEntities == {HEAT_TARGET, COOL_TARGET, SPECIAL, BARE_AQUAREA}
Entities == PanasonicEntities \cup AquareaEntities

\* The entity's class.
ClassOf(e) ==
    CASE e = DAMPER -> "PanasonicNumberEntity"
      [] e = HSWING -> "PanasonicSelectEntity"
      [] e \in {INSIDE, BARE} -> "PanasonicSensorEntity"
      [] e \in {HEAT_TARGET, COOL_TARGET} -> "AquareaNumberEntity"
      [] e = SPECIAL -> "AquareaSelectEntity"
      [] e = BARE_AQUAREA -> "AquareaSensorEntity"

\* "heat-target" in key / "cool-target" in key, for the keys f"zone-{zone_id}-heat-target"
\* and f"zone-{zone_id}-cool-target" that setup builds.
KeyHas(e, part) ==
    \/ part = "heat-target" /\ e = HEAT_TARGET
    \/ part = "cool-target" /\ e = COOL_TARGET

\* ------------------------------------------------------------ snapshots

ZoneSnapshots ==
    [heat_target_temperature : {None} \cup {Some(t) : t \in HeatSetpoints},
     cool_target_temperature : {None} \cup {Some(t) : t \in CoolSetpoints},
     temperature : {22}]

\* device.zones: a dict from zone id to zone, here with at most the entities' zone.
ZoneDicts == {<<>>} \cup {<<z>> : z \in ZoneSnapshots}

\* dict.get(key): None when the key is absent.
zones_get(zones, zone_id) == IF zone_id \in DOMAIN zones THEN Some(zones[zone_id]) ELSE None

PanasonicSnapshots ==
    [zone_level : Levels,
     horizontal_swing_mode : {Member(n) : n \in SwingNames},
     parameters_inside_temperature : {None, Some(21)}]

AquareaSnapshots ==
    [zones : ZoneDicts,
     mode : Modes,
     special_status : {None} \cup {Some(m) : m \in SpecialStatus}]

\* --------------------------------------------------------- descriptions

\* create_zone_damper_description: get_value=lambda device: zone.level
zone_damper_get_value(device) == Some(device.zone_level)

\* create_zone_damper_description: set_value=lambda builder, value: builder.set_zone_damper(zone.id, value)
zone_damper_set_value(builder, value) ==
    Append(builder, [method |-> "set_zone_damper", args |-> <<ZoneIdOf(DAMPER), value>>])

\* HORIZONTAL_SWING_DESCRIPTION.get_current_option
horizontal_swing_get_current_option(device) == Some(device.horizontal_swing_mode.name)

\* HORIZONTAL_SWING_DESCRIPTION.set_option
horizontal_swing_set_option(builder, new_value) ==
    Append(builder, [method |-> "set_horizontal_swing", args |-> <<new_value>>])

\* Mutant (C9): no "NORMAL" for a device without a special status.
special_status_get_current_option_no_fallback(device) ==
    IF device.special_status # None THEN Some(device.special_status[1].name) ELSE None

\* AQUAREA_SPECIAL_STATUS_DESCRIPTION.get_current_option:
\* device.special_status.name if device.special_status else "NORMAL"
special_status_get_current_option(device) ==
    IF device.special_status # None THEN Some(device.special_status[1].name) ELSE Some("NORMAL")

\* AQUAREA_SPECIAL_STATUS_DESCRIPTION.set_option: the call made on the device,
\* device.set_special_status(SpecialStatus[value] if value != "NORMAL" else None)
special_status_set_option(value) ==
    [method |-> "set_special_status",
     args |-> <<IF value # "NORMAL" THEN Some(getitem(SpecialStatus, value)) ELSE None>>]

\* AQUAREA_POWERFUL_TIME_DESCRIPTION.get_current_option: device.powerful_time.name
powerful_time_get_current_option(device) == Some(device.powerful_time.name)

\* AQUAREA_POWERFUL_TIME_DESCRIPTION.set_option: device.set_powerful_time(PowerfulTime[value])
powerful_time_set_option(value) ==
    [method |-> "set_powerful_time", args |-> <<getitem(PowerfulTime, value)>>]

\* Whether the sensor description sets get_state / is_available (both default to None).
\* BARE and BARE_AQUAREA are descriptions built with the key alone.
HasGetState(e) == e = INSIDE
HasIsAvailable(e) == e = INSIDE

\* INSIDE_TEMPERATURE_DESCRIPTION.get_state
get_state(e, device) == device.parameters_inside_temperature

\* INSIDE_TEMPERATURE_DESCRIPTION.is_available: the reading is not None
is_available(e, device) == device.parameters_inside_temperature # None

\* ------------------------------------------------- the update callbacks

\* PanasonicNumberEntity._async_update_attrs
PanasonicNumber_async_update_attrs(e, a, device) ==
    [a EXCEPT !.native_value = zone_damper_get_value(device)]

\* PanasonicSelectEntity._async_update_attrs: assigns self.current_option
PanasonicSelect_async_update_attrs(e, a, device) ==
    [a EXCEPT !.current_option = horizontal_swing_get_current_option(device)]

\* PanasonicSensorEntity._async_update_attrs
PanasonicSensor_async_update_attrs(e, a, device) ==
    LET a1 == IF HasIsAvailable(e) THEN [a EXCEPT !.available = is_available(e, device)] ELSE a
    IN  IF HasGetState(e) THEN [a1 EXCEPT !.native_value = get_state(e, device)] ELSE a1

\* Mutant (C3): a setpoint of None keeps the value shown before instead of falling
\* back to the zone's temperature.
AquareaNumber_async_update_attrs_merging(e, a, device) ==
    LET zone == zones_get(device.zones, ZoneIdOf(e)) IN
    IF zone # None
    THEN LET temp == IF KeyHas(e, "heat-target")
                     THEN zone[1].heat_target_temperature
                     ELSE zone[1].cool_target_temperature
         IN  IF temp = None THEN a ELSE [a EXCEPT !.native_value = temp]
    ELSE a

\* Mutant (C7): the heat-target entity reads the cool setpoint and the cool-target
\* entity the heat setpoint.
AquareaNumber_async_update_attrs_swapped(e, a, device) ==
    LET zone == zones_get(device.zones, ZoneIdOf(e)) IN
    IF zone # None
    THEN LET temp == IF KeyHas(e, "heat-target")
                     THEN zone[1].cool_target_temperature
                     ELSE zone[1].heat_target_temperature
         IN  [a EXCEPT !.native_value = IF temp = None THEN Some(zone[1].temperature) ELSE temp]
    ELSE a

\* AquareaNumberEntity._async_update_attrs
AquareaNumber_async_update_attrs(e, a, device) ==
    LET zone == zones_get(device.zones, ZoneIdOf(e)) IN
    IF zone # None
    THEN IF KeyHas(e, "heat-target")
         THEN LET temp == zone[1].heat_target_temperature IN
              [a EXCEPT !.native_value =
                  IF temp = None THEN Some(zone[1].temperature) ELSE temp]
         ELSE IF KeyHas(e, "cool-target")
         THEN LET temp == zone[1].cool_target_temperature IN
              [a EXCEPT !.native_value =
                  IF temp = None THEN Some(zone[1].temperature) ELSE temp]
         ELSE a
    ELSE a

\* AquareaSelectEntity._async_update_attrs
AquareaSelect_async_update_attrs(e, a, device) ==
    [a EXCEPT !._attr_current_option = special_status_get_current_option(device)]

\* AquareaSensorEntity._async_update_attrs
AquareaSensor_async_update_attrs(e, a, device) ==
    LET a1 == IF HasIsAvailable(e) THEN [a EXCEPT !.available = is_available(e, device)] ELSE a
    IN  IF HasGetState(e) THEN [a1 EXCEPT !.native_value = get_state(e, device)] ELSE a1

\* The callback of e's class.
_async_update_attrs(e, a, device) ==
    CASE ClassOf(e) = "PanasonicNumberEntity" -> PanasonicNumber_async_update_attrs(e, a, device)
      [] ClassOf(e) = "PanasonicSelectEntity" -> PanasonicSelect_async_update_attrs(e, a, device)
      [] ClassOf(e) = "PanasonicSensorEntity" -> PanasonicSensor_async_update_attrs(e, a, device)
      [] ClassOf(e) = "AquareaNumberEntity" -> AquareaNumber_async_update_attrs(e, a, device)
      [] ClassOf(e) = "AquareaSelectEntity" -> AquareaSelect_async_update_attrs(e, a, device)
      [] ClassOf(e) = "AquareaSensorEntity" -> AquareaSensor_async_update_attrs(e, a, device)

\* The attributes of a freshly constructed entity: nothing assigned yet.
InitialAttr(e) ==
    CASE ClassOf(e) \in {"PanasonicNumberEntity", "AquareaNumberEntity"} ->
            [native_value |-> None]
      [] ClassOf(e) = "PanasonicSelectEntity" ->
            [_attr_current_option |-> None, current_option |-> None]
      [] ClassOf(e) = "AquareaSelectEntity" -> [_attr_current_option |-> None]
      [] ClassOf(e) \in {"PanasonicSensorEntity", "AquareaSensorEntity"} ->
            [available |-> TRUE, native_value |-> None]


\* ------------------------------------------------------- the user writes

\* No write in flight.
Idle ==
    [pc |-> "idle", value |-> None, original_mode |-> None, trace |-> <<>>, sent |-> <<>>]

\* coordinator.get_change_request_builder(): a builder holding no change yet.
get_change_request_builder == <<>>

\* What a write step leaves alone.
WriteFrame == UNCHANGED <<entity, coordinator_device, refreshed, hass, devices, rt>>

\* PanasonicNumberEntity.async_set_native_value, up to its await of async_apply_changes.
PanasonicNumber_async_set_native_value(value) ==
    /\ call.pc = "idle"
    /\ ClassOf(entity) = "PanasonicNumberEntity"
    /\ LET v == int_(value)
           builder == zone_damper_set_value(get_change_request_builder, v)
       IN  call' = [pc |-> "await_mutation", value |-> Some(v), original_mode |-> None,
                    trace |-> <<"set_value", "async_apply_changes">>,
                    sent |-> builder]
    /\ notified' = FALSE
    /\ UNCHANGED <<attr, optimistic>>
    /\ WriteFrame

\* Mutant (C5): the write also stores the value in the snapshot's zone.
PanasonicNumber_applied_writes_snapshot ==
    /\ call.pc = "await_mutation"
    /\ ClassOf(entity) = "PanasonicNumberEntity"
    /\ attr' = [attr EXCEPT !.native_value = call.value]
    /\ coordinator_device' = [coordinator_device EXCEPT !.zone_level = call.value[1]]
    /\ optimistic' = TRUE
    /\ call' = [call EXCEPT !.pc = "done",
                            !.trace = @ \o <<"assign", "async_write_ha_state">>]
    /\ notified' = FALSE
    /\ UNCHANGED <<entity, refreshed, hass, devices, rt>>

\* PanasonicNumberEntity.async_set_native_value, after async_apply_changes returned.
PanasonicNumber_applied ==
    /\ call.pc = "await_mutation"
    /\ ClassOf(entity) = "PanasonicNumberEntity"
    /\ attr' = [attr EXCEPT !.native_value = call.value]
    /\ optimistic' = TRUE
    /\ call' = [call EXCEPT !.pc = "done",
                            !.trace = @ \o <<"assign", "async_write_ha_state">>]
    /\ notified' = FALSE
    /\ WriteFrame

\* Mutant (C4): the option is assigned and the state written before the await.
PanasonicSelect_async_select_option_optimistic_first(option) ==
    /\ call.pc = "idle"
    /\ ClassOf(entity) = "PanasonicSelectEntity"
    /\ LET builder == horizontal_swing_set_option(get_change_request_builder, option)
       IN  call' = [pc |-> "await_mutation", value |-> Some(option), original_mode |-> None,
                    trace |-> <<"set_option", "assign", "async_write_ha_state",
                                "async_apply_changes">>,
                    sent |-> builder]
    /\ attr' = [attr EXCEPT !._attr_current_option = Some(option)]
    /\ optimistic' = TRUE
    /\ notified' = FALSE
    /\ WriteFrame

\* PanasonicSelectEntity.async_select_option, up to its await of async_apply_changes.
PanasonicSelect_async_select_option(option) ==
    /\ call.pc = "idle"
    /\ ClassOf(entity) = "PanasonicSelectEntity"
    /\ LET builder == horizontal_swing_set_option(get_change_request_builder, option)
       IN  call' = [pc |-> "await_mutation", value |-> Some(option), original_mode |-> None,
                    trace |-> <<"set_option", "async_apply_changes">>,
                    sent |-> builder]
    /\ notified' = FALSE
    /\ UNCHANGED <<attr, optimistic>>
    /\ WriteFrame

\* PanasonicSelectEntity.async_select_option, after async_apply_changes returned.
PanasonicSelect_applied ==
    /\ call.pc = "await_mutation"
    /\ ClassOf(entity) = "PanasonicSelectEntity"
    /\ attr' = [attr EXCEPT !._attr_current_option = call.value]
    /\ optimistic' = TRUE
    /\ call' = [call EXCEPT !.pc = "done",
                            !.trace = @ \o <<"assign", "async_write_ha_state">>]
    /\ notified' = FALSE
    /\ WriteFrame

\* AquareaNumberEntity.async_set_native_value, up to its await of device.set_temperature.
\* Both branches read device.mode into original_mode, log, and make the same call.
AquareaNumber_async_set_native_value(value) ==
    /\ call.pc = "idle"
    /\ ClassOf(entity) = "AquareaNumberEntity"
    /\ KeyHas(entity, "heat-target") \/ KeyHas(entity, "cool-target")
    /\ LET zone_id == ZoneIdOf(entity)
           temperature == int_(value)
       IN  call' = [pc |-> "await_mutation", value |-> Some(temperature),
                    original_mode |-> Some(coordinator_device.mode),
                    trace |-> <<"set_temperature">>,
                    sent |-> <<[method |-> "set_temperature",
                                args |-> <<temperature, zone_id>>]>>]
    /\ notified' = FALSE
    /\ UNCHANGED <<attr, optimistic>>
    /\ WriteFrame

\* AquareaNumberEntity.async_set_native_value, after set_temperature returned, up to
\* its await of coordinator.async_request_refresh.
AquareaNumber_temperature_set ==
    /\ call.pc = "await_mutation"
    /\ ClassOf(entity) = "AquareaNumberEntity"
    /\ attr' = [attr EXCEPT !.native_value = call.value]
    /\ optimistic' = TRUE
    /\ call' = [call EXCEPT !.pc = "await_refresh",
                            !.trace = @ \o <<"assign", "async_write_ha_state",
                                             "async_request_refresh">>]
    /\ notified' = FALSE
    /\ WriteFrame

\* AquareaSelectEntity.async_select_option, up to its await of set_option's awaitable.
AquareaSelect_async_select_option(option) ==
    /\ call.pc = "idle"
    /\ ClassOf(entity) = "AquareaSelectEntity"
    /\ call' = [pc |-> "await_mutation", value |-> Some(option), original_mode |-> None,
                trace |-> <<"set_option">>,
                sent |-> <<special_status_set_option(option)>>]
    /\ notified' = FALSE
    /\ UNCHANGED <<attr, optimistic>>
    /\ WriteFrame

\* Mutant (C2): the write returns after writing the state, requesting no refresh.
AquareaSelect_option_set_no_refresh ==
    /\ call.pc = "await_mutation"
    /\ ClassOf(entity) = "AquareaSelectEntity"
    /\ attr' = [attr EXCEPT !._attr_current_option = call.value]
    /\ optimistic' = TRUE
    /\ call' = [call EXCEPT !.pc = "done",
                            !.trace = @ \o <<"assign", "async_write_ha_state">>]
    /\ notified' = FALSE
    /\ WriteFrame

\* AquareaSelectEntity.async_select_option, after the awaitable returned, up to its
\* await of coordinator.async_request_refresh.
AquareaSelect_option_set ==
    /\ call.pc = "await_mutation"
    /\ ClassOf(entity) = "AquareaSelectEntity"
    /\ attr' = [attr EXCEPT !._attr_current_option = call.value]
    /\ optimistic' = TRUE
    /\ call' = [call EXCEPT !.pc = "await_refresh",
                            !.trace = @ \o <<"assign", "async_write_ha_state",
                                             "async_request_refresh">>]
    /\ notified' = FALSE
    /\ WriteFrame

\* The awaited async_apply_changes or vendor mutation raises: the exception leaves the
\* coroutine at the await, and none of the statements after it runs.
AwaitRaises ==
    /\ call.pc = "await_mutation"
    /\ call' = [call EXCEPT !.pc = "raised"]
    /\ notified' = FALSE
    /\ UNCHANGED <<attr, optimistic>>
    /\ WriteFrame

\* await coordinator.async_request_refresh() returns: the last statement of both
\* Aquarea writes.
RequestRefreshReturns ==
    /\ call.pc = "await_refresh"
    /\ call' = [call EXCEPT !.pc = "done"]
    /\ notified' = FALSE
    /\ UNCHANGED <<attr, optimistic>>
    /\ WriteFrame

\* The caller of the write has its result (a return or the exception).
WriteEnds ==
    /\ call.pc \in {"done", "raised"}
    /\ call' = Idle
    /\ notified' = FALSE
    /\ UNCHANGED <<attr, optimistic>>
    /\ WriteFrame

\* ------------------------------------------------- coordinator updates

\* The snapshots the entity's coordinator can hold.
SnapshotsOf(e) == IF e \in PanasonicEntities THEN PanasonicSnapshots ELSE AquareaSnapshots

\* The coordinator holds a new snapshot and runs the entity's update callback. A write
\* suspended at an await does not hold this back; a write between awaits does.
CoordinatorUpdate ==
    \E s \in SnapshotsOf(entity) :
        /\ call.pc \in {"idle", "await_mutation", "await_refresh"}
        /\ coordinator_device' = s
        /\ attr' = _async_update_attrs(entity, attr, s)
        /\ optimistic' = FALSE
        /\ refreshed' = TRUE
        /\ notified' = TRUE
        /\ UNCHANGED <<entity, call, hass, devices, rt>>

\* ------------------------------------------------------ specification

NoSetup == [panasonic |-> <<>>, aquarea |-> <<>>]
NoRoundTrip == [pc |-> "off"]

Init ==
    /\ entity \in Entities
    /\ coordinator_device \in SnapshotsOf(entity)
    /\ attr = InitialAttr(entity)
    /\ call = Idle
    /\ optimistic = FALSE
    /\ refreshed = FALSE
    /\ notified = FALSE
    /\ hass = NoSetup
    /\ devices = None
    /\ rt = NoRoundTrip

Next ==
    \/ \E v \in UserValues : PanasonicNumber_async_set_native_value(v)
    \/ PanasonicNumber_applied
    \/ \E o \in SwingNames : PanasonicSelect_async_select_option(o)
    \/ PanasonicSelect_applied
    \/ \E v \in UserValues : AquareaNumber_async_set_native_value(v)
    \/ AquareaNumber_temperature_set
    \/ \E o \in Range(SPECIAL_STATUS_OPTIONS) : AquareaSelect_async_select_option(o)
    \/ AquareaSelect_option_set
    \/ AwaitRaises
    \/ RequestRefreshReturns
    \/ WriteEnds
    \/ CoordinatorUpdate

Spec == Init /\ [][Next]_vars

\* ------------------------------------------- number.async_setup_entry

\* Python truth of an int-or-None: None and 0 are false.
Truthy(x) == x # None /\ x[1] # 0

\* x if x is not None else default
OrDefault(x, default) == IF x # None THEN x[1] ELSE default

\* Sequences over S of length at most n.
SeqUpTo(S, n) == UNION {[1..k -> S] : k \in 0..n}

\* Zones of an Aquarea device as setup reads them; zone ids are 1..Len, in dict order.
SetupAquareaZones ==
    [cool_max : {None, Some(30)},
     cool_min : {None, Some(0), Some(16)},
     heat_max : {None, Some(55)},
     heat_min : {None}]

\* A Panasonic device as setup reads it: has_zones and the ids in parameters.zones.
SetupPanasonicDevices == [has_zones : BOOLEAN, zones : {[i \in 1..k |-> i] : k \in 0..MaxZones}]

SetupAquareaDevices == [zones : SeqUpTo(SetupAquareaZones, MaxZones)]

\* Concatenation of a sequence of sequences, in order.
RECURSIVE Flatten(_)
Flatten(ss) == IF ss = <<>> THEN <<>> ELSE Head(ss) \o Flatten(Tail(ss))

\* PanasonicNumberEntity(data_coordinator, create_zone_damper_description(zone))
DamperEntity(c, zone_id) ==
    [cls |-> "PanasonicNumberEntity", coordinator |-> c, zone_id |-> zone_id,
     key |-> <<"zone", zone_id, "damper">>,
     native_max_value |-> 100, native_min_value |-> 0]

\* The heat-target AquareaNumberEntity of a zone.
HeatTargetEntity(c, zone_id, zone) ==
    [cls |-> "AquareaNumberEntity", coordinator |-> c, zone_id |-> zone_id,
     key |-> <<"zone", zone_id, "heat-target">>,
     native_max_value |-> OrDefault(zone.heat_max, 30),
     native_min_value |-> OrDefault(zone.heat_min, 10)]

\* The cool-target AquareaNumberEntity of a zone.
CoolTargetEntity(c, zone_id, zone) ==
    [cls |-> "AquareaNumberEntity", coordinator |-> c, zone_id |-> zone_id,
     key |-> <<"zone", zone_id, "cool-target">>,
     native_max_value |-> OrDefault(zone.cool_max, 30),
     native_min_value |-> OrDefault(zone.cool_min, 16)]

\* if zone.cool_max and zone.cool_min
SupportsCoolTarget(zone) == Truthy(zone.cool_max) /\ Truthy(zone.cool_min)

\* The entities the first loop appends for Panasonic coordinator number c.
PanasonicNumbers(c, dev) ==
    IF dev.has_zones
    THEN [i \in 1..Len(dev.zones) |-> DamperEntity(c, dev.zones[i])]
    ELSE <<>>

\* The entities the second loop appends for Aquarea coordinator number c.
AquareaNumbers(c, dev) ==
    Flatten([zone_id \in 1..Len(dev.zones) |->
        <<HeatTargetEntity(c, zone_id, dev.zones[zone_id])>>
        \o (IF SupportsCoolTarget(dev.zones[zone_id])
            THEN <<CoolTargetEntity(c, zone_id, dev.zones[zone_id])>>
            ELSE <<>>)])

\* number.async_setup_entry: the list handed to async_add_entities.
async_setup_entry ==
    /\ devices = None
    /\ devices' = Some(
          Flatten([c \in 1..Len(hass.panasonic) |-> PanasonicNumbers(c, hass.panasonic[c])])
          \o Flatten([c \in 1..Len(hass.aquarea) |-> AquareaNumbers(c, hass.aquarea[c])]))
    /\ UNCHANGED <<entity, coordinator_device, attr, call, optimistic, refreshed,
                   notified, hass, rt>>

SetupInit ==
    /\ hass \in [panasonic : SeqUpTo(SetupPanasonicDevices, 2),
                 aquarea : SeqUpTo(SetupAquareaDevices, 1)]
    /\ devices = None
    /\ entity = DAMPER
    /\ coordinator_device = CHOOSE s \in PanasonicSnapshots : TRUE
    /\ attr = InitialAttr(DAMPER)
    /\ call = Idle
    /\ optimistic = FALSE
    /\ refreshed = FALSE
    /\ notified = FALSE
    /\ rt = NoRoundTrip

SetupNext == async_setup_entry

SetupSpec == SetupInit /\ [][SetupNext]_vars

\* ------------------------------- the Aquarea select descriptions' round trip

RoundTripKeys == {"special_status", "powerful_time"}

\* description.options
OptionsOf(key) ==
    IF key = "special_status" THEN Range(SPECIAL_STATUS_OPTIONS)
    ELSE Range(POWERFUL_TIME_OPTIONS)

\* description.set_option(device, option): the call made on the device.
set_option(key, option) ==
    IF key = "special_status" THEN special_status_set_option(option)
    ELSE powerful_time_set_option(option)

\* description.get_current_option(device)
get_current_option(key, dev) ==
    IF key = "special_status" THEN special_status_get_current_option(dev)
    ELSE powerful_time_get_current_option(dev)

\* The device after it applied a call: the attribute holds the argument.
DeviceAfter(dev, sent) ==
    IF sent.method = "set_special_status"
    THEN [dev EXCEPT !.special_status = sent.args[1]]
    ELSE [dev EXCEPT !.powerful_time = sent.args[1]]

RoundTripDevices ==
    [special_status : {None} \cup {Some(m) : m \in SpecialStatus},
     powerful_time : PowerfulTime]

\* AquareaSelectEntity.async_select_option calls description.set_option.
RT_set_option ==
    /\ rt.pc = "start"
    /\ rt' = [rt EXCEPT !.pc = "called", !.sent = Some(set_option(rt.key, rt.option))]
    /\ UNCHANGED <<entity, coordinator_device, attr, call, optimistic, refreshed,
                   notified, hass, devices>>

\* The device applies the call it was sent.
RT_device_applies ==
    /\ rt.pc = "called"
    /\ rt' = [rt EXCEPT !.pc = "applied", !.device = DeviceAfter(rt.device, rt.sent[1])]
    /\ UNCHANGED <<entity, coordinator_device, attr, call, optimistic, refreshed,
                   notified, hass, devices>>

\* AquareaSelectEntity._async_update_attrs calls description.get_current_option.
RT_get_current_option ==
    /\ rt.pc = "applied"
    /\ rt' = [rt EXCEPT !.pc = "read", !.result = get_current_option(rt.key, rt.device)]
    /\ UNCHANGED <<entity, coordinator_device, attr, call, optimistic, refreshed,
                   notified, hass, devices>>

RoundTripInit ==
    /\ rt \in {[pc |-> "start", key |-> k, option |-> o, device |-> d,
                sent |-> None, result |-> None] :
                   k \in RoundTripKeys, o \in Range(SPECIAL_STATUS_OPTIONS)
                       \cup Range(POWERFUL_TIME_OPTIONS), d \in RoundTripDevices}
    /\ rt.option \in OptionsOf(rt.key)
    /\ hass = NoSetup
    /\ devices = None
    /\ entity = SPECIAL
    /\ coordinator_device = CHOOSE s \in AquareaSnapshots : TRUE
    /\ attr = InitialAttr(SPECIAL)
    /\ call = Idle
    /\ optimistic = FALSE
    /\ refreshed = FALSE
    /\ notified = FALSE

RoundTripNext == RT_set_option \/ RT_device_applies \/ RT_get_current_option

RoundTripSpec == RoundTripInit /\ [][RoundTripNext]_vars

\* ------------------------------------------------------------- claims

\* The attribute a user write assigns (the optimistic value).
OptimisticValue(e, a) ==
    IF ClassOf(e) \in {"PanasonicSelectEntity", "AquareaSelectEntity"}
    THEN a._attr_current_option ELSE a.native_value

\* The attribute the update callback assigns.
RefreshedValue(e, a) ==
    CASE ClassOf(e) = "PanasonicSelectEntity" -> a.current_option
      [] ClassOf(e) = "AquareaSelectEntity" -> a._attr_current_option
      [] OTHER -> a.native_value

\* The description's getter applied to a snapshot, for the descriptions that have one.
HasGetter(e) == e \in {DAMPER, HSWING, SPECIAL, INSIDE}
Getter(e, dev) ==
    CASE e = DAMPER -> zone_damper_get_value(dev)
      [] e = HSWING -> horizontal_swing_get_current_option(dev)
      [] e = SPECIAL -> special_status_get_current_option(dev)
      [] e = INSIDE -> get_state(e, dev)

\* C1: outside the window between a write's optimistic assignment and the next update
\* callback, the value the entity displays is the description's getter applied to the
\* snapshot; in particular, once a write stored an option in a Panasonic select's
\* _attr_current_option, the next update callback leaves get_current_option(device)
\* there.
C1_DisplayIsProjection ==
    /\ (refreshed /\ ~optimistic /\ HasGetter(entity) /\ entity # HSWING)
          => OptimisticValue(entity, attr) = Getter(entity, coordinator_device)
    /\ (notified /\ entity = HSWING /\ attr._attr_current_option # None)
          => OptimisticValue(entity, attr) = Getter(entity, coordinator_device)

SetterSteps == {"set_value", "set_option", "set_temperature"}

\* Some step of `firsts` comes before some step of `thens` in the trace.
Before(trace, firsts, thens) ==
    \E i, j \in DOMAIN trace : i < j /\ trace[i] \in firsts /\ trace[j] \in thens

\* C2 (as claimed): a write that returned has called the setter or vendor mutation,
\* then assigned the optimistic value, then requested a refresh.
C2_SetterAssignRefresh ==
    call.pc = "done"
        => /\ Before(call.trace, SetterSteps, {"assign"})
           /\ Before(call.trace, {"assign"}, {"async_request_refresh"})

\* C2 (amended): every write that returned has called the setter or vendor mutation
\* before the optimistic assignment; an Aquarea write then requested a refresh, a
\* Panasonic write awaited async_apply_changes before the assignment and requested no
\* refresh.
C2_SetterAssignThenRefreshOnAquarea ==
    call.pc = "done"
        => IF entity \in AquareaEntities
           THEN \E m \in SetterSteps :
                   call.trace = <<m, "assign", "async_write_ha_state",
                                  "async_request_refresh">>
           ELSE \E m \in SetterSteps :
                   call.trace = <<m, "async_apply_changes", "assign",
                                  "async_write_ha_state">>

\* A Panasonic write returned with its optimistic value shown and no refresh requested.
C2_Witness ==
    /\ call.pc = "done"
    /\ ClassOf(entity) = "PanasonicNumberEntity"
    /\ optimistic
    /\ attr.native_value = call.value

\* The value shown is the one a freshly constructed entity shows after the same
\* callback: were the callback to use the value displayed before, some reachable
\* earlier value would show through.
FromSnapshotAlone(e, a, dev) ==
    RefreshedValue(e, _async_update_attrs(e, InitialAttr(e), dev)) = RefreshedValue(e, a)

\* C3 (as claimed): after every update callback the displayed value is a function of
\* the snapshot alone, whatever was displayed before.
C3_OverwrittenWholesale ==
    notified => FromSnapshotAlone(entity, attr, coordinator_device)

\* The callback of e assigns a value for this snapshot.
Assigns(e, dev) ==
    CASE ClassOf(e) = "AquareaNumberEntity" -> ZoneIdOf(e) \in DOMAIN dev.zones
      [] ClassOf(e) \in {"PanasonicSensorEntity", "AquareaSensorEntity"} -> HasGetState(e)
      [] OTHER -> TRUE

\* C3 (amended): an update callback that assigns the displayed value leaves a function
\* of the snapshot alone; the Aquarea number callback with its zone absent from the
\* snapshot, and a sensor callback whose description has no get_state, assign nothing
\* and leave the value displayed before.
C3_OverwrittenOrKept ==
    [][notified' =>
          IF Assigns(entity, coordinator_device')
          THEN FromSnapshotAlone(entity, attr, coordinator_device)'
          ELSE RefreshedValue(entity, attr') = RefreshedValue(entity, attr)]_vars

\* An update without the zone ran on a heat-target entity, which still shows the value
\* a write assigned.
C3_Witness ==
    /\ notified
    /\ entity = HEAT_TARGET
    /\ coordinator_device.zones = <<>>
    /\ attr.native_value = Some(23)

WriteSteps == {"assign", "async_write_ha_state", "async_request_refresh"}

\* C4: when the awaited vendor mutation or async_apply_changes raises, the write ends
\* there: none of its steps, from the call to the raise, changed the displayed value,
\* wrote the state or requested a refresh.
C4_RaiseLeavesEntity ==
    [][(call' # call /\ call'.pc \in {"await_mutation", "raised"})
          => /\ attr' = attr
             /\ optimistic' = optimistic
             /\ Range(call'.trace) \cap WriteSteps = {}]_vars

\* A Panasonic select write raised; the option asked for is not displayed.
C4_Witness ==
    /\ call.pc = "raised"
    /\ ClassOf(entity) = "PanasonicSelectEntity"
    /\ attr._attr_current_option # call.value
    /\ refreshed

BuilderMethods == {"set_zone_damper", "set_horizontal_swing"}
VendorMethods == {"set_temperature", "set_special_status", "set_powerful_time"}

\* C5: no step of a write changes the coordinator's snapshot: what a write changes goes
\* out as a request, through the builder given to async_apply_changes or through a
\* vendor mutation method.
C5_SnapshotOnlyRead ==
    [][/\ call' # call => coordinator_device' = coordinator_device
       /\ call'.pc # "idle" =>
             /\ call'.sent # <<>>
             /\ \A i \in DOMAIN call'.sent :
                   call'.sent[i].method \in BuilderMethods \cup VendorMethods]_vars

\* A damper write returned and shows a level the snapshot does not hold.
C5_Witness ==
    /\ call.pc = "done"
    /\ entity = DAMPER
    /\ refreshed
    /\ attr.native_value # zone_damper_get_value(coordinator_device)

\* C6: a heat-target write made while the mode is neither HEAT nor AUTO_HEAT switches
\* the device to HEAT before set_temperature, and a cool-target write made while the
\* mode is neither COOL nor AUTO_COOL switches it to COOL.
C6_ModeSwitchedForCall ==
    (ClassOf(entity) = "AquareaNumberEntity" /\ call.pc # "idle")
        => LET wanted == IF KeyHas(entity, "heat-target") THEN "HEAT" ELSE "COOL"
               fits == IF KeyHas(entity, "heat-target")
                       THEN {"HEAT", "AUTO_HEAT"} ELSE {"COOL", "AUTO_COOL"}
           IN  call.original_mode[1] \notin fits
                  => \E i, j \in DOMAIN call.sent :
                        /\ i < j
                        /\ call.sent[i].method = "set_mode"
                        /\ call.sent[i].args = <<wanted>>
                        /\ call.sent[j].method = "set_temperature"

\* zone.heat_target_temperature, or zone.temperature when it is None.
HeatDisplay(zone) ==
    IF zone.heat_target_temperature # None
    THEN zone.heat_target_temperature ELSE Some(zone.temperature)

\* zone.cool_target_temperature, or zone.temperature when it is None.
CoolDisplay(zone) ==
    IF zone.cool_target_temperature # None
    THEN zone.cool_target_temperature ELSE Some(zone.temperature)

\* C7: after an update whose snapshot holds the zone, a heat-target entity displays the
\* zone's heat setpoint, or the zone's temperature when that is None, and a cool-target
\* entity the cool setpoint, or the zone's temperature when that is None.
C7_TargetOrCurrent ==
    (notified /\ ClassOf(entity) = "AquareaNumberEntity"
              /\ ZoneIdOf(entity) \in DOMAIN coordinator_device.zones)
        => LET zone == coordinator_device.zones[ZoneIdOf(entity)] IN
           /\ entity = HEAT_TARGET => attr.native_value = HeatDisplay(zone)
           /\ entity = COOL_TARGET => attr.native_value = CoolDisplay(zone)

\* A heat-target entity was refreshed from a zone with a cool setpoint and no heat
\* setpoint, and shows the zone's temperature.
C7_Witness ==
    /\ notified
    /\ entity = HEAT_TARGET
    /\ coordinator_device.zones # <<>>
    /\ coordinator_device.zones[1].heat_target_temperature = None
    /\ coordinator_device.zones[1].cool_target_temperature # None
    /\ attr.native_value = Some(coordinator_device.zones[1].temperature)

\* The number of entities in the list with this class, coordinator, zone and key part.
Count(list, cls, c, zone_id, part) ==
    Cardinality({i \in DOMAIN list :
        /\ list[i].cls = cls
        /\ list[i].coordinator = c
        /\ list[i].zone_id = zone_id
        /\ list[i].key[3] = part})

\* C8: setup creates one heat-target entity per zone of every Aquarea coordinator, one
\* cool-target entity for exactly the zones whose cool_max and cool_min are both not
\* None, and for every Panasonic coordinator one damper entity per zone when has_zones
\* and none otherwise.
C8_SetupEntities ==
    devices # None =>
        /\ \A c \in DOMAIN hass.aquarea : \A z \in DOMAIN hass.aquarea[c].zones :
              LET zone == hass.aquarea[c].zones[z] IN
              /\ Count(devices[1], "AquareaNumberEntity", c, z, "heat-target") = 1
              /\ Count(devices[1], "AquareaNumberEntity", c, z, "cool-target") =
                    (IF zone.cool_max # None /\ zone.cool_min # None THEN 1 ELSE 0)
        /\ \A c \in DOMAIN hass.panasonic : \A i \in DOMAIN hass.panasonic[c].zones :
              Count(devices[1], "PanasonicNumberEntity", c, hass.panasonic[c].zones[i],
                    "damper") = (IF hass.panasonic[c].has_zones THEN 1 ELSE 0)

====
